---- MODULE Spec2Model ----
(***************************************************************************)
(* Model of the validation and calculation helpers of the finance tracker  *)
(* (src/lib/helpers.py).  Every helper is a pure function; a behaviour of   *)
(* the model is one call: Init draws the function and its argument from a  *)
(* bounded set, the function's action computes the result the way the code *)
(* does, statement by statement.  The SavingsGoal of the ORM models, whose  *)
(* methods src/tests/test_models.py exercises, is the one object with      *)
(* state: goal holds it and calls the calls made on it so far.             *)
(*                                                                         *)
(* Strings are sequences of characters, a character being a one-character  *)
(* TLA+ string (or a code-point label such as "U+00DF" for a non-ASCII     *)
(* character).  Floats are modelled by exact decimals / rationals; nan and *)
(* the infinities are kept as separate values.                             *)
(***************************************************************************)
EXTENDS Integers, Sequences, FiniteSets, TLC

VARIABLES fn, arg, pc, ret, goal, calls

vars == <<fn, arg, pc, ret, goal, calls>>

(***************************************************************************)
(* Bounds of the input sets.                                               *)
(***************************************************************************)
\* number of tokens concatenated to form an input string
MaxTokens == 3
\* largest amount of money, in whole units
MaxMoney == 11
\* longest loan shorter than a year, in months
MaxMonths == 3
\* largest compounding frequency (and smallest, negated)
MaxFrequency == 2
\* largest max_length a text is truncated to, the default aside
MaxLength == 6
\* largest number of contributions made to a savings goal
MaxContributions == 3

(***************************************************************************)
(* Characters.                                                             *)
(***************************************************************************)
LowerSeq ==
  <<"a","b","c","d","e","f","g","h","i","j","k","l","m",
    "n","o","p","q","r","s","t","u","v","w","x","y","z">>

UpperSeq ==
  <<"A","B","C","D","E","F","G","H","I","J","K","L","M",
    "N","O","P","Q","R","S","T","U","V","W","X","Y","Z">>

DigitSeq == <<"0","1","2","3","4","5","6","7","8","9">>

Range(f) == {f[i] : i \in DOMAIN f}

Lower == Range(LowerSeq)
Upper == Range(UpperSeq)
Letter == Lower \cup Upper
Digit == Range(DigitSeq)

\* LATIN SMALL LETTER SHARP S: a cased character whose title-case and
\* upper-case forms are two characters long
SharpS == "U+00DF"

\* the characters str.strip() and the regex class \s remove
Whitespace == {" ", "\t", "\n", "\r"}

IndexOf(seq, c) == CHOOSE i \in DOMAIN seq : seq[i] = c

DigitVal(c) == IndexOf(DigitSeq, c) - 1

\* str.lower() of one character
LowerChar(c) == IF c \in Upper THEN LowerSeq[IndexOf(UpperSeq, c)] ELSE c

\* the title-case mapping of one character (a string: it may be longer)
TitleChar(c) ==
  IF c \in Lower THEN <<UpperSeq[IndexOf(LowerSeq, c)]>>
  ELSE IF c = SharpS THEN <<"S", "s">>
  ELSE <<c>>

IsCased(c) == c \in Letter \cup {SharpS}

(***************************************************************************)
(* String methods.                                                         *)
(***************************************************************************)
RECURSIVE LStrip(_)
LStrip(s) ==
  IF s # <<>> /\ Head(s) \in Whitespace THEN LStrip(Tail(s)) ELSE s

RECURSIVE RStrip(_)
RStrip(s) ==
  IF s # <<>> /\ s[Len(s)] \in Whitespace
  THEN RStrip(SubSeq(s, 1, Len(s) - 1))
  ELSE s

\* str.strip()
Strip(s) == RStrip(LStrip(s))

\* str.lower()
StrLower(s) == [i \in 1..Len(s) |-> LowerChar(s[i])]

\* str.title(): a character that follows a cased character is lower-cased,
\* any other is title-cased
RECURSIVE TitleFrom(_, _, _)
TitleFrom(s, i, prevCased) ==
  IF i > Len(s) THEN <<>>
  ELSE (IF prevCased THEN <<LowerChar(s[i])>> ELSE TitleChar(s[i]))
       \o TitleFrom(s, i + 1, IsCased(s[i]))

StrTitle(s) == TitleFrom(s, 1, FALSE)

\* re.sub(r'[...]', '', s): s without the characters of cls
RemoveChars(s, cls) == SelectSeq(s, LAMBDA c : c \notin cls)

\* re.search(r'[...]', s): some character of s is in cls
SearchClass(s, cls) == \E i \in 1..Len(s) : s[i] \in cls

RECURSIVE Concat(_)
Concat(ss) == IF ss = <<>> THEN <<>> ELSE Head(ss) \o Concat(Tail(ss))

\* s * n
Rep(s, n) == [i \in 1..(n * Len(s)) |-> s[((i - 1) % Len(s)) + 1]]

(***************************************************************************)
(* Results.  A call either returns a pair (ok, payload) or raises.         *)
(***************************************************************************)
NoValue == [kind |-> "none"]
Msg(text) == [kind |-> "msg", text |-> text]
StrVal(s) == [kind |-> "str", chars |-> s]

Return(ok, payload) == [exc |-> "none", ok |-> ok, payload |-> payload]
Raise(e) == [exc |-> e, ok |-> FALSE, payload |-> NoValue]
Pending == [exc |-> "pending", ok |-> FALSE, payload |-> NoValue]

(***************************************************************************)
(* validate_category                                                       *)
(***************************************************************************)
CategoryMaxLen == 100

CategoryBadChars == {"<", ">", "\"", "'"}

validate_category(category) ==
  LET c == Strip(category) IN
  IF c = <<>> THEN Return(FALSE, Msg("Category cannot be empty"))
  ELSE IF Len(c) > CategoryMaxLen
    THEN Return(FALSE, Msg("Category name is too long (max 100 characters)"))
  ELSE IF SearchClass(c, CategoryBadChars)
    THEN Return(FALSE, Msg("Category contains invalid characters"))
  ELSE Return(TRUE, StrVal(StrTitle(c)))

(***************************************************************************)
(* Regular expressions of the shape ^item item ... item$ as re.match runs  *)
(* them: an item is a character class with a repetition range (max = -1:   *)
(* unbounded), tried with backtracking; $ also matches before a final      *)
(* newline.                                                                *)
(***************************************************************************)
Item(cls, min, max) == [cls |-> cls, min |-> min, max |-> max]
Lit(c) == Item({c}, 1, 1)

\* the number of consecutive characters of cls in s from position i on
RunLen(s, i, cls) ==
  LET stop == {j \in i..Len(s) : s[j] \notin cls} IN
  IF stop = {} THEN Len(s) + 1 - i
  ELSE (CHOOSE j \in stop : \A k \in stop : j <= k) - i

AtDollar(s, i) == i = Len(s) + 1 \/ (i = Len(s) /\ s[i] = "\n")

RECURSIVE ReMatch(_, _, _, _)
ReMatch(items, k, s, i) ==
  IF k > Len(items) THEN AtDollar(s, i)
  ELSE LET it == items[k]
           run == RunLen(s, i, it.cls)
           hi == IF it.max = -1 \/ run < it.max THEN run ELSE it.max
       IN \E c \in it.min..hi : ReMatch(items, k + 1, s, i + c)

\* re.match(pattern, s)
Match(items, s) == ReMatch(items, 1, s, 1)

(***************************************************************************)
(* validate_email                                                          *)
(***************************************************************************)
EmailMaxLen == 255

EmailLocalChars == Letter \cup Digit \cup {".", "_", "%", "+", "-"}
EmailDomainChars == Letter \cup Digit \cup {".", "-"}

\* as EmailPattern, with a top-level domain of one letter allowed
EmailPatternShortTld ==
  << Item(EmailLocalChars, 1, -1), Lit("@"), Item(EmailDomainChars, 1, -1),
     Lit("."), Item(Letter, 1, -1) >>

\* r'^[a-zA-Z0-9._%+-]+@[a-zA-Z0-9.-]+\.[a-zA-Z]{2,}$'
EmailPattern ==
  << Item(EmailLocalChars, 1, -1), Lit("@"), Item(EmailDomainChars, 1, -1),
     Lit("."), Item(Letter, 2, -1) >>

validate_email(email) ==
  LET e == Strip(email) IN
  IF e = <<>> THEN Return(FALSE, Msg("Email cannot be empty"))
  ELSE IF Len(e) > EmailMaxLen THEN Return(FALSE, Msg("Email is too long"))
  ELSE IF ~Match(EmailPattern, e) THEN Return(FALSE, Msg("Invalid email format"))
  ELSE Return(TRUE, StrVal(StrLower(e)))

(***************************************************************************)
(* validate_name                                                           *)
(***************************************************************************)
NameMinLen == 2
NameMaxLen == 100

NamePunct == Whitespace \cup {"-", "'", "."}

validate_name(name) ==
  LET n == Strip(name) IN
  IF n = <<>> THEN Return(FALSE, Msg("Name cannot be empty"))
  ELSE IF Len(n) < NameMinLen
    THEN Return(FALSE, Msg("Name must be at least 2 characters long"))
  ELSE IF Len(n) > NameMaxLen
    THEN Return(FALSE, Msg("Name is too long (max 100 characters)"))
  ELSE IF ~Match(<<Item(Letter \cup NamePunct, 1, -1)>>, n)
    THEN Return(FALSE, Msg("Name contains invalid characters"))
  ELSE IF Match(<<Item(NamePunct, 1, -1)>>, n)
    THEN Return(FALSE, Msg("Name must contain letters"))
  ELSE Return(TRUE, StrVal(StrTitle(n)))

(***************************************************************************)
(* validate_description                                                    *)
(***************************************************************************)
DescriptionMaxLen == 255

validate_description(description) ==
  LET d == Strip(description) IN
  IF d = <<>> THEN Return(TRUE, StrVal(<<>>))
  ELSE IF Len(d) > DescriptionMaxLen
    THEN Return(FALSE, Msg("Description is too long (max 255 characters)"))
  ELSE IF SearchClass(d, {"<", ">"})
    THEN Return(FALSE, Msg("Description contains invalid characters"))
  ELSE Return(TRUE, StrVal(d))

(***************************************************************************)
(* validate_month                                                          *)
(***************************************************************************)
MinYear == 1900
MaxYear == 2100

\* int() of a string of digits, surrounding whitespace ignored
RECURSIVE DigitsToInt(_)
DigitsToInt(s) ==
  IF s = <<>> THEN 0
  ELSE 10 * DigitsToInt(SubSeq(s, 1, Len(s) - 1)) + DigitVal(s[Len(s)])

ParseInt(s) == DigitsToInt(Strip(s))

\* r'^\d{4}-\d{2}$'
MonthPattern == << Item(Digit, 4, 4), Lit("-"), Item(Digit, 2, 2) >>

validate_month(month_str) ==
  IF month_str = <<>> THEN Return(FALSE, Msg("Month cannot be empty"))
  ELSE IF ~Match(MonthPattern, month_str)
    THEN Return(FALSE, Msg("Invalid month format. Use YYYY-MM (e.g., 2023-12)"))
  ELSE LET year_int == ParseInt(SubSeq(month_str, 1, 4))
           month_int == ParseInt(SubSeq(month_str, 6, Len(month_str)))
       IN IF year_int < MinYear \/ year_int > MaxYear
            THEN Return(FALSE, Msg("Year must be between 1900 and 2100"))
          ELSE IF month_int < 1 \/ month_int > 12
            THEN Return(FALSE, Msg("Month must be between 01 and 12"))
          ELSE Return(TRUE, StrVal(month_str))

(***************************************************************************)
(* validate_phone_number                                                   *)
(***************************************************************************)
PhoneMinDigits == 7
PhoneMaxDigits == 15

PhoneSeparators == Whitespace \cup {"-", "(", ")", "+"}

\* str.isdigit(): non-empty and every character a digit
IsDigitStr(s) == s # <<>> /\ \A i \in 1..Len(s) : s[i] \in Digit

validate_phone_number(phone) ==
  IF phone = <<>> THEN Return(TRUE, StrVal(<<>>))
  ELSE LET p == Strip(phone)
           cleaned == RemoveChars(p, PhoneSeparators)
       IN IF ~IsDigitStr(cleaned)
            THEN Return(FALSE,
                   Msg("Phone number should contain only digits and common separators"))
          ELSE IF Len(cleaned) < PhoneMinDigits \/ Len(cleaned) > PhoneMaxDigits
            THEN Return(FALSE, Msg("Phone number should be between 7 and 15 digits"))
          ELSE Return(TRUE, StrVal(p))

(***************************************************************************)
(* validate_hex_color                                                      *)
(***************************************************************************)
HexDigit == Digit \cup {"a","b","c","d","e","f"} \cup {"A","B","C","D","E","F"}

DefaultColor == <<"#","0","0","7","b","f","f">>

\* r'^#[0-9A-Fa-f]{6}$'
HexPattern == << Lit("#"), Item(HexDigit, 6, 6) >>

\* as validate_hex_color, returning the color in the case it was given
validate_hex_color_cased(color) ==
  IF color = <<>> THEN Return(TRUE, StrVal(DefaultColor))
  ELSE LET c0 == Strip(color)
           c == IF c0 # <<>> /\ Head(c0) = "#" THEN c0 ELSE <<"#">> \o c0
       IN IF ~Match(HexPattern, c)
            THEN Return(FALSE, Msg("Invalid color format. Use hex format like #FF0000"))
          ELSE Return(TRUE, StrVal(c))

validate_hex_color(color) ==
  IF color = <<>> THEN Return(TRUE, StrVal(DefaultColor))
  ELSE LET c0 == Strip(color)
           c == IF c0 # <<>> /\ Head(c0) = "#" THEN c0 ELSE <<"#">> \o c0
       IN IF ~Match(HexPattern, c)
            THEN Return(FALSE, Msg("Invalid color format. Use hex format like #FF0000"))
          ELSE Return(TRUE, StrVal(StrLower(c)))

(***************************************************************************)
(* validate_date.  datetime.strptime compiles a format into a regular      *)
(* expression with one group of ordered alternatives per directive,        *)
(* matches it from the start of the string, raises ValueError when it does *)
(* not match or when text remains after the match, and builds the date     *)
(* (ValueError for a day the month does not have, or for year 0).          *)
(***************************************************************************)
D19 == Digit \ {"0"}

\* %Y: \d\d\d\d
DirY == [name |-> "Y", alts |-> << <<Digit, Digit, Digit, Digit>> >>]

\* %m: 1[0-2]|0[1-9]|[1-9]
DirM == [name |-> "m",
         alts |-> << <<{"1"}, {"0","1","2"}>>, <<{"0"}, D19>>, <<D19>> >>]

\* %d: 3[01]|[12]\d|0[1-9]|[1-9]| [1-9]
DirD == [name |-> "d",
         alts |-> << <<{"3"}, {"0","1"}>>, <<{"1","2"}, Digit>>, <<{"0"}, D19>>,
                     <<D19>>, <<{" "}, D19>> >>]

Sep(c) == [name |-> "lit", alts |-> << <<{c}>> >>]

\* ['%Y-%m-%d', '%Y/%m/%d', '%d-%m-%Y', '%d/%m/%Y']
DateFormats ==
  << <<DirY, Sep("-"), DirM, Sep("-"), DirD>>,
     <<DirY, Sep("/"), DirM, Sep("/"), DirD>>,
     <<DirD, Sep("-"), DirM, Sep("-"), DirY>>,
     <<DirD, Sep("/"), DirM, Sep("/"), DirY>> >>

AltMatches(alt, s, i) ==
  /\ i + Len(alt) - 1 <= Len(s)
  /\ \A j \in 1..Len(alt) : s[i + j - 1] \in alt[j]

NoMatch == [ok |-> FALSE, ends |-> <<>>]

\* the regex match of the directives k.. of fmt at position i of s: the
\* first alternative, in order, after which the rest of the format matches
RECURSIVE StrpFrom(_, _, _, _), TryAlts(_, _, _, _, _)
StrpFrom(fmt, k, s, i) ==
  IF k > Len(fmt) THEN [ok |-> TRUE, ends |-> <<>>] ELSE TryAlts(fmt, k, s, i, 1)

TryAlts(fmt, k, s, i, a) ==
  IF a > Len(fmt[k].alts) THEN NoMatch
  ELSE LET alt == fmt[k].alts[a]
           rest == StrpFrom(fmt, k + 1, s, i + Len(alt))
       IN IF AltMatches(alt, s, i) /\ rest.ok
            THEN [ok |-> TRUE, ends |-> <<i + Len(alt)>> \o rest.ends]
            ELSE TryAlts(fmt, k, s, i, a + 1)

IsLeap(y) == (y % 4 = 0 /\ y % 100 # 0) \/ y % 400 = 0

DaysInMonth(y, m) ==
  IF m = 2 THEN (IF IsLeap(y) THEN 29 ELSE 28)
  ELSE IF m \in {4, 6, 9, 11} THEN 30 ELSE 31

\* datetime.date(y, m, d) does not raise
ValidDate(y, m, d) ==
  /\ y >= 1 /\ y <= 9999
  /\ m >= 1 /\ m <= 12
  /\ d >= 1 /\ d <= DaysInMonth(y, m)

DateVal(y, m, d) == [kind |-> "date", y |-> y, m |-> m, d |-> d]

ParseError == [ok |-> FALSE, date |-> NoValue]

\* datetime.strptime(s, fmt).date(); ok = FALSE stands for ValueError
strptime(s, fmt) ==
  LET r == StrpFrom(fmt, 1, s, 1) IN
  IF ~r.ok THEN ParseError
  ELSE IF r.ends[Len(fmt)] # Len(s) + 1 THEN ParseError
  ELSE LET group(name) ==
             LET k == CHOOSE j \in 1..Len(fmt) : fmt[j].name = name
                 from == IF k = 1 THEN 1 ELSE r.ends[k - 1]
             IN ParseInt(SubSeq(s, from, r.ends[k] - 1))
           y == group("Y")
           m == group("m")
           d == group("d")
       IN IF ValidDate(y, m, d) THEN [ok |-> TRUE, date |-> DateVal(y, m, d)]
          ELSE ParseError

DateLess(a, b) ==
  \/ a.y < b.y
  \/ a.y = b.y /\ a.m < b.m
  \/ a.y = b.y /\ a.m = b.m /\ a.d < b.d

min_date == DateVal(MinYear, 1, 1)
max_date == DateVal(MaxYear, 12, 31)

\* as TryFormats, the last day of the range taken as too far in the future
RECURSIVE TryFormatsMaxExcluded(_, _)
TryFormatsMaxExcluded(date_str, k) ==
  IF k > Len(DateFormats)
    THEN Return(FALSE, Msg("Invalid date format. Use YYYY-MM-DD"))
  ELSE LET p == strptime(date_str, DateFormats[k]) IN
       IF ~p.ok THEN TryFormatsMaxExcluded(date_str, k + 1)
       ELSE IF DateLess(p.date, min_date)
         THEN Return(FALSE, Msg("Date is too far in the past"))
       ELSE IF ~DateLess(p.date, max_date)
         THEN Return(FALSE, Msg("Date is too far in the future"))
       ELSE Return(TRUE, p.date)

\* the loop over the formats, from format k on
RECURSIVE TryFormats(_, _)
TryFormats(date_str, k) ==
  IF k > Len(DateFormats)
    THEN Return(FALSE, Msg("Invalid date format. Use YYYY-MM-DD"))
  ELSE LET p == strptime(date_str, DateFormats[k]) IN
       IF ~p.ok THEN TryFormats(date_str, k + 1)
       ELSE IF DateLess(p.date, min_date)
         THEN Return(FALSE, Msg("Date is too far in the past"))
       ELSE IF DateLess(max_date, p.date)
         THEN Return(FALSE, Msg("Date is too far in the future"))
       ELSE Return(TRUE, p.date)

validate_date(date_str) ==
  IF date_str = <<>> THEN Return(FALSE, Msg("Date cannot be empty"))
  ELSE TryFormats(date_str, 1)

(***************************************************************************)
(* validate_amount.  float(s) is modelled on decimal numerals: a finite    *)
(* float is its exact decimal value (sign, integer digits without leading  *)
(* zeros, fraction digits without trailing zeros); nan and the infinities  *)
(* are values of their own.                                                *)
(***************************************************************************)
Euro == "U+20AC"
Pound == "U+00A3"

CurrencyChars == {"$", ",", Euro, Pound}

Finite(neg, ip, fp) ==
  [kind |-> "float", cls |-> "finite", neg |-> neg, ip |-> ip, fp |-> fp]
NaN == [kind |-> "float", cls |-> "nan", neg |-> FALSE, ip |-> <<>>, fp |-> <<>>]
Inf(neg) == [kind |-> "float", cls |-> "inf", neg |-> neg, ip |-> <<>>, fp |-> <<>>]

ValueError == [ok |-> FALSE, val |-> NoValue]
Parsed(v) == [ok |-> TRUE, val |-> v]

RECURSIVE DropLeadingZeros(_)
DropLeadingZeros(ds) ==
  IF ds # <<>> /\ Head(ds) = "0" THEN DropLeadingZeros(Tail(ds)) ELSE ds

RECURSIVE DropTrailingZeros(_)
DropTrailingZeros(ds) ==
  IF ds # <<>> /\ ds[Len(ds)] = "0"
  THEN DropTrailingZeros(SubSeq(ds, 1, Len(ds) - 1))
  ELSE ds

\* a digit part: digits, with single underscores between digits only
DigitPart(s) ==
  /\ s # <<>>
  /\ \A i \in 1..Len(s) :
       \/ s[i] \in Digit
       \/ /\ s[i] = "_"
          /\ i > 1 /\ i < Len(s)
          /\ s[i - 1] \in Digit /\ s[i + 1] \in Digit

Digits(s) == RemoveChars(s, {"_"})

\* index of the first character of s that is in cls, 0 when there is none
FirstIn(s, cls) ==
  IF SearchClass(s, cls)
  THEN CHOOSE i \in 1..Len(s) : s[i] \in cls /\ \A j \in 1..(i - 1) : s[j] \notin cls
  ELSE 0

\* magnitudes no double reaches: a decimal at or above 10^FloatMaxExp10 is
\* an infinity, one below 10^-FloatMaxExp10 is a zero
FloatMaxExp10 == 400

IsZeroDigits(ds) == \A i \in 1..Len(ds) : ds[i] = "0"

\* the decimal ip.fp * 10^e, normalised
Scale(neg, ip, fp, e) ==
  LET all == ip \o fp
      \* the value is 0.d... * 10^mag with d the first non-zero digit
      mag == Len(ip) - RunLen(all, 1, {"0"}) + e
      point == Len(ip) + e
      ip2 == IF point <= 0 THEN <<>>
             ELSE IF point >= Len(all) THEN all \o Rep(<<"0">>, point - Len(all))
             ELSE SubSeq(all, 1, point)
      fp2 == IF point <= 0 THEN Rep(<<"0">>, 0 - point) \o all
             ELSE IF point >= Len(all) THEN <<>>
             ELSE SubSeq(all, point + 1, Len(all))
  IN IF IsZeroDigits(all) \/ mag < 0 - FloatMaxExp10 THEN Finite(neg, <<>>, <<>>)
     ELSE IF mag > FloatMaxExp10 THEN Inf(neg)
     ELSE Finite(neg, DropLeadingZeros(ip2), DropTrailingZeros(fp2))

\* the value of an exponent's digits, cut off beyond every double's range
ExponentValue(ds) ==
  LET sig == DropLeadingZeros(ds) IN
  IF Len(sig) > 4 THEN 100000 ELSE DigitsToInt(sig)

\* float(s) of a Python string: surrounding whitespace is ignored, then
\* [sign] (inf | infinity | nan | digits [. [digits]] [exponent]
\*         | . digits [exponent])
ParseFloat(s0) ==
  LET s == Strip(s0)
      signed == s # <<>> /\ Head(s) \in {"+", "-"}
      neg == signed /\ Head(s) = "-"
      r == IF signed THEN Tail(s) ELSE s
      low == StrLower(r)
      ePos == FirstIn(r, {"e", "E"})
      mant == IF ePos = 0 THEN r ELSE SubSeq(r, 1, ePos - 1)
      expo == IF ePos = 0 THEN <<>> ELSE SubSeq(r, ePos + 1, Len(r))
      eSigned == expo # <<>> /\ Head(expo) \in {"+", "-"}
      eDigits == IF eSigned THEN Tail(expo) ELSE expo
      dot == FirstIn(mant, {"."})
      ip == IF dot = 0 THEN mant ELSE SubSeq(mant, 1, dot - 1)
      fp == IF dot = 0 THEN <<>> ELSE SubSeq(mant, dot + 1, Len(mant))
      e == IF ePos = 0 THEN 0
           ELSE IF eSigned /\ Head(expo) = "-" THEN 0 - ExponentValue(Digits(eDigits))
           ELSE ExponentValue(Digits(eDigits))
  IN IF low \in { <<"i","n","f">>, <<"i","n","f","i","n","i","t","y">> }
       THEN Parsed(Inf(neg))
     ELSE IF low = <<"n","a","n">> THEN Parsed(NaN)
     ELSE IF /\ (ip = <<>> \/ DigitPart(ip))
             /\ (fp = <<>> \/ DigitPart(fp))
             /\ (ip # <<>> \/ fp # <<>>)
             /\ (ePos = 0 \/ DigitPart(eDigits))
       THEN Parsed(Scale(neg, Digits(ip), Digits(fp), e))
     ELSE ValueError

IsZero(v) == v.cls = "finite" /\ v.ip = <<>> /\ v.fp = <<>>

\* v < 0
FloatNegative(v) ==
  \/ v.cls = "inf" /\ v.neg
  \/ v.cls = "finite" /\ v.neg /\ ~IsZero(v)

\* the digits of 1000000000
AmountLimitDigits == <<"1","0","0","0","0","0","0","0","0","0">>

\* a < b for digit strings of the same length
RECURSIVE DigitsLess(_, _)
DigitsLess(a, b) ==
  IF a = <<>> THEN FALSE
  ELSE IF Head(a) # Head(b) THEN DigitVal(Head(a)) < DigitVal(Head(b))
  ELSE DigitsLess(Tail(a), Tail(b))

\* v > the integer whose digits are lim
FloatGreater(v, lim) ==
  \/ v.cls = "inf" /\ ~v.neg
  \/ /\ v.cls = "finite" /\ ~v.neg
     /\ \/ Len(v.ip) > Len(lim)
        \/ Len(v.ip) = Len(lim) /\ DigitsLess(lim, v.ip)
        \/ v.ip = lim /\ v.fp # <<>>

\* as validate_amount, without the except ValueError clause
validate_amount_uncaught(amount_str) ==
  LET cleaned == RemoveChars(Strip(amount_str), CurrencyChars)
      f == ParseFloat(cleaned)
  IN IF ~f.ok THEN Raise("ValueError")
     ELSE IF FloatNegative(f.val) THEN Return(FALSE, Msg("Amount cannot be negative"))
     ELSE IF FloatGreater(f.val, AmountLimitDigits)
       THEN Return(FALSE, Msg("Amount is too large"))
     ELSE Return(TRUE, f.val)

validate_amount(amount_str) ==
  LET cleaned == RemoveChars(Strip(amount_str), CurrencyChars)
      f == ParseFloat(cleaned)
  IN IF ~f.ok
       THEN Return(FALSE, Msg("Invalid amount format. Please enter a valid number."))
     ELSE IF FloatNegative(f.val) THEN Return(FALSE, Msg("Amount cannot be negative"))
     ELSE IF FloatGreater(f.val, AmountLimitDigits)
       THEN Return(FALSE, Msg("Amount is too large"))
     ELSE Return(TRUE, f.val)

(***************************************************************************)
(* Input strings: concatenations of at most MaxTokens tokens.              *)
(***************************************************************************)
TokenStrings(tokens) ==
  UNION {{Concat(t) : t \in [1..n -> tokens]} : n \in 0..MaxTokens}

CategoryTokens ==
  { <<" ">>,
    <<"f","o","o","d">>,
    <<"F","o","o","d">>,
    <<"b","A","r">>,
    <<"<">>,
    <<"'">>,
    <<"2">>,
    <<SharpS>>,
    <<"-">> }

CategoryInputs ==
  TokenStrings(CategoryTokens)
    \cup { Rep(<<"a">>, n) : n \in {CategoryMaxLen - 1, CategoryMaxLen, CategoryMaxLen + 1} }
    \cup { <<SharpS>> \o Rep(<<"a">>, CategoryMaxLen - 1),
           <<" ">> \o Rep(<<"a", " ">>, CategoryMaxLen \div 2) }

AmountTokens ==
  { <<"$">>,
    <<" ">>,
    <<"-">>,
    <<"1",",","2","0","0">>,
    <<".","5","0">>,
    <<"5">>,
    <<"0">>,
    <<"n","a","n">>,
    <<"x">>,
    <<"1","0","0","0","0","0","0","0","0","0">>,
    <<"e","1">>,
    <<"e","-","2">>,
    <<"_">>,
    <<Euro>>,
    <<"i","n","f">> }

AmountInputs == TokenStrings(AmountTokens)

EmailTokens ==
  { <<"a","@","B">>,
    <<"a","@">>,
    <<"B">>,
    <<".","c","o">>,
    <<".","c">>,
    <<".">>,
    <<"@">>,
    <<" ">>,
    <<"x","-","1">>,
    <<"_","%">> }

EmailInputs ==
  TokenStrings(EmailTokens)
    \cup { Rep(<<"a">>, n) \o <<"@","b",".","c","o","m">> :
             n \in {EmailMaxLen - 7, EmailMaxLen - 6, EmailMaxLen - 5} }
    \cup { <<" ">> \o Rep(<<"a">>, EmailMaxLen - 6) \o <<"@","b",".","c","o","m","\n">> }

NameTokens ==
  { <<"a">>,
    <<"B">>,
    <<" ">>,
    <<"-">>,
    <<"'">>,
    <<".">>,
    <<"1">>,
    <<"\t">>,
    <<"j","o">> }

NameInputs ==
  TokenStrings(NameTokens)
    \cup { Rep(<<"a">>, n) : n \in {NameMaxLen - 1, NameMaxLen, NameMaxLen + 1} }

DescriptionTokens ==
  { <<"a">>,
    <<"B">>,
    <<" ">>,
    <<"<">>,
    <<">">>,
    <<"1">>,
    <<"\n">> }

DescriptionInputs ==
  TokenStrings(DescriptionTokens)
    \cup { Rep(<<"a">>, n) :
             n \in {DescriptionMaxLen - 1, DescriptionMaxLen, DescriptionMaxLen + 1} }

MonthTokens ==
  { <<"2","0","2","3">>,
    <<"1","8","9","9">>,
    <<"1","9","0","0">>,
    <<"2","1","0","0">>,
    <<"2","1","0","1">>,
    <<"-">>,
    <<"1","2">>,
    <<"1","3">>,
    <<"0","0">>,
    <<"0","1">>,
    <<"\n">>,
    <<"1">>,
    <<"x">>,
    <<" ">> }

MonthInputs ==
  TokenStrings(MonthTokens)
    \cup { <<"2","0","2","3","-","1","2","\n">>,
           <<"2","0","2","3","-","1","2","\n","\n">>,
           <<"\n","2","0","2","3","-","1","2">>,
           <<"2","0","2","3","-","1","2"," ">>,
           <<"1","8","9","9","-","1","2","\n">> }

PhoneTokens ==
  { <<"5","5","5">>,
    <<"1","2","3","4">>,
    <<"1","2","3","4","5","6","7","8">>,
    <<"-">>,
    <<"(">>,
    <<")">>,
    <<"+">>,
    <<" ">>,
    <<"x">>,
    <<"\t">> }

PhoneInputs == TokenStrings(PhoneTokens)

ColorTokens ==
  { <<"#">>,
    <<"F","F">>,
    <<"0","0">>,
    <<"7","b">>,
    <<"g">>,
    <<" ">>,
    <<"f","f","0">>,
    <<"A">> }

ColorInputs == TokenStrings(ColorTokens)

DateFields ==
  { <<"2","0","2","3">>,
    <<"2","0","2","4">>,
    <<"1","8","9","9">>,
    <<"1","9","0","0">>,
    <<"2","1","0","0">>,
    <<"2","1","0","1">>,
    <<"0","0","0","0">>,
    <<"9","9","9","9">>,
    <<"1">>,
    <<"0","1">>,
    <<"0","2">>,
    <<"1","2">>,
    <<"1","3">>,
    <<"2","9">>,
    <<"3","1">>,
    <<" ","1">>,
    <<>> }

DateSeps == { <<"-">>, <<"/">> }

DateInputs ==
  { f1 \o s1 \o f2 \o s2 \o f3 :
      f1 \in DateFields, s1 \in DateSeps, f2 \in DateFields, s2 \in DateSeps,
      f3 \in DateFields }
    \cup { <<>>, <<"2","0","2","3","-","0","1","-","0","1","\n">>,
           <<"2","0","2","3","0","1","0","1">>, <<"t","o","d","a","y">>,
           <<" ","2","0","2","3","-","0","1","-","0","1">> }

Validators ==
  { "validate_amount", "validate_email", "validate_category", "validate_date",
    "validate_month", "validate_name", "validate_description",
    "validate_phone_number", "validate_hex_color" }

\* the strings a validator is called with
Inputs(f) ==
  CASE f = "validate_amount" -> AmountInputs
    [] f = "validate_email" -> EmailInputs
    [] f = "validate_category" -> CategoryInputs
    [] f = "validate_date" -> DateInputs
    [] f = "validate_month" -> MonthInputs
    [] f = "validate_name" -> NameInputs
    [] f = "validate_description" -> DescriptionInputs
    [] f = "validate_phone_number" -> PhoneInputs
    [] f = "validate_hex_color" -> ColorInputs

(***************************************************************************)
(* The validators' specification: one call of one validator.               *)
(***************************************************************************)
Init ==
  /\ pc = "call"
  /\ ret = Pending
  /\ fn \in Validators
  /\ arg \in Inputs(fn)
  /\ goal = NoValue
  /\ calls = <<>>

CallValidateAmount ==
  /\ pc = "call" /\ fn = "validate_amount"
  /\ ret' = validate_amount(arg)
  /\ pc' = "done"
  /\ UNCHANGED <<fn, arg, goal, calls>>

CallValidateEmail ==
  /\ pc = "call" /\ fn = "validate_email"
  /\ ret' = validate_email(arg)
  /\ pc' = "done"
  /\ UNCHANGED <<fn, arg, goal, calls>>

CallValidateCategory ==
  /\ pc = "call" /\ fn = "validate_category"
  /\ ret' = validate_category(arg)
  /\ pc' = "done"
  /\ UNCHANGED <<fn, arg, goal, calls>>

CallValidateDate ==
  /\ pc = "call" /\ fn = "validate_date"
  /\ ret' = validate_date(arg)
  /\ pc' = "done"
  /\ UNCHANGED <<fn, arg, goal, calls>>

CallValidateMonth ==
  /\ pc = "call" /\ fn = "validate_month"
  /\ ret' = validate_month(arg)
  /\ pc' = "done"
  /\ UNCHANGED <<fn, arg, goal, calls>>

CallValidateName ==
  /\ pc = "call" /\ fn = "validate_name"
  /\ ret' = validate_name(arg)
  /\ pc' = "done"
  /\ UNCHANGED <<fn, arg, goal, calls>>

CallValidateDescription ==
  /\ pc = "call" /\ fn = "validate_description"
  /\ ret' = validate_description(arg)
  /\ pc' = "done"
  /\ UNCHANGED <<fn, arg, goal, calls>>

CallValidatePhoneNumber ==
  /\ pc = "call" /\ fn = "validate_phone_number"
  /\ ret' = validate_phone_number(arg)
  /\ pc' = "done"
  /\ UNCHANGED <<fn, arg, goal, calls>>

CallValidateHexColor ==
  /\ pc = "call" /\ fn = "validate_hex_color"
  /\ ret' = validate_hex_color(arg)
  /\ pc' = "done"
  /\ UNCHANGED <<fn, arg, goal, calls>>

Next ==
  \/ CallValidateAmount
  \/ CallValidateEmail
  \/ CallValidateCategory
  \/ CallValidateDate
  \/ CallValidateMonth
  \/ CallValidateName
  \/ CallValidateDescription
  \/ CallValidatePhoneNumber
  \/ CallValidateHexColor

Spec == Init /\ [][Next]_vars

(***************************************************************************)
(* Numbers of the calculators: exact rationals n/d in lowest terms, d > 0. *)
(***************************************************************************)
Abs(x) == IF x < 0 THEN 0 - x ELSE x

RECURSIVE GCD(_, _)
GCD(a, b) == IF b = 0 THEN Abs(a) ELSE GCD(Abs(b), Abs(a) % Abs(b))

Q(n, d) ==
  LET g == GCD(n, d)
      s == IF d < 0 THEN 0 - 1 ELSE 1
  IN [kind |-> "num", n |-> s * (n \div g), d |-> s * (d \div g)]

Zero == Q(0, 1)
One == Q(1, 1)

QLess(a, b) == a.n * b.d < b.n * a.d
QLeq(a, b) == a.n * b.d <= b.n * a.d

QAdd(a, b) ==
  LET g == GCD(a.d, b.d) IN
  Q(a.n * (b.d \div g) + b.n * (a.d \div g), (a.d \div g) * b.d)

QSub(a, b) == QAdd(a, Q(0 - b.n, b.d))

\* cross-reduced before multiplying, so that no intermediate product is
\* larger than the result's terms
QMul(a, b) ==
  LET g1 == GCD(a.n, b.d)
      g2 == GCD(b.n, a.d)
  IN Q((a.n \div g1) * (b.n \div g2), (a.d \div g2) * (b.d \div g1))

\* a / b for b # 0
QDiv(a, b) == QMul(a, Q(b.d, b.n))

RECURSIVE IntPow(_, _)
IntPow(b, k) == IF k = 0 THEN 1 ELSE b * IntPow(b, k - 1)

\* a ** k for an integer k (a # 0 when k < 0); a power of a fraction in
\* lowest terms is in lowest terms
QPow(a, k) ==
  IF k >= 0 THEN Q(IntPow(a.n, k), IntPow(a.d, k))
  ELSE Q(IntPow(a.d, 0 - k), IntPow(a.n, 0 - k))

Hundred == Q(100, 1)

\* round(x, 2): the nearest multiple of 1/100, a tie going to the even one
\* (of the exact value: a double that only approximates a tie is rounded
\* to whichever side it falls on)
Round2(x) ==
  LET whole == x.n \div x.d
      part == 100 * (x.n % x.d)
      low == part \div x.d
      twice == 2 * (part % x.d)
      cents == IF twice > x.d \/ (twice = x.d /\ low % 2 = 1) THEN low + 1 ELSE low
  IN Q(100 * whole + cents, 100)

Pair(a, b) == [kind |-> "pair", a |-> a, b |-> b]
Label(s) == [kind |-> "label", text |-> s]

\* a call that returns the value v
Returns(v) == [exc |-> "none", ok |-> TRUE, payload |-> v]

(***************************************************************************)
(* calculate_compound_interest, for an integer compound_frequency * time   *)
(***************************************************************************)
calculate_compound_interest(principal, rate, time, compound_frequency) ==
  IF QLeq(principal, Zero) \/ QLess(rate, Zero) \/ QLess(time, Zero)
    THEN Returns(Zero)
  ELSE IF compound_frequency = Zero THEN Raise("ZeroDivisionError")
  ELSE LET base == QAdd(One, QDiv(rate, compound_frequency))
           exponent == QMul(compound_frequency, time)
       IN IF base = Zero /\ QLess(exponent, Zero) THEN Raise("ZeroDivisionError")
          ELSE Returns(Round2(QMul(principal, QPow(base, exponent.n))))

(***************************************************************************)
(* calculate_monthly_payment, for an integer years * 12                    *)
(***************************************************************************)
\* as calculate_monthly_payment, the annual rate used as the monthly rate
calculate_monthly_payment_annual(principal, annual_rate, years) ==
  IF QLeq(principal, Zero) \/ QLess(annual_rate, Zero) \/ QLeq(years, Zero)
    THEN Returns(Zero)
  ELSE LET monthly_rate == annual_rate
           num_payments == QMul(years, Q(12, 1))
           growth == QPow(QAdd(One, monthly_rate), num_payments.n)
       IN IF monthly_rate = Zero THEN Returns(QDiv(principal, num_payments))
          ELSE Returns(Round2(QDiv(QMul(principal, QMul(monthly_rate, growth)),
                                   QSub(growth, One))))

calculate_monthly_payment(principal, annual_rate, years) ==
  IF QLeq(principal, Zero) \/ QLess(annual_rate, Zero) \/ QLeq(years, Zero)
    THEN Returns(Zero)
  ELSE LET monthly_rate == QDiv(annual_rate, Q(12, 1))
           num_payments == QMul(years, Q(12, 1))
           growth == QPow(QAdd(One, monthly_rate), num_payments.n)
       IN IF monthly_rate = Zero THEN Returns(QDiv(principal, num_payments))
          ELSE Returns(Round2(QDiv(QMul(principal, QMul(monthly_rate, growth)),
                                   QSub(growth, One))))

(***************************************************************************)
(* get_budget_status                                                       *)
(***************************************************************************)
\* as get_budget_status, the boundary 50 put in the upper band
get_budget_status_strict(spent, limit) ==
  IF QLeq(limit, Zero) THEN Returns(Pair("No limit", "gray"))
  ELSE LET percentage == QMul(QDiv(spent, limit), Hundred) IN
       IF QLess(percentage, Q(50, 1)) THEN Returns(Pair("Good", "green"))
       ELSE IF QLeq(percentage, Q(75, 1)) THEN Returns(Pair("Warning", "yellow"))
       ELSE IF QLeq(percentage, Hundred) THEN Returns(Pair("High", "orange"))
       ELSE Returns(Pair("Over", "red"))

get_budget_status(spent, limit) ==
  IF QLeq(limit, Zero) THEN Returns(Pair("No limit", "gray"))
  ELSE LET percentage == QMul(QDiv(spent, limit), Hundred) IN
       IF QLeq(percentage, Q(50, 1)) THEN Returns(Pair("Good", "green"))
       ELSE IF QLeq(percentage, Q(75, 1)) THEN Returns(Pair("Warning", "yellow"))
       ELSE IF QLeq(percentage, Hundred) THEN Returns(Pair("High", "orange"))
       ELSE Returns(Pair("Over", "red"))

(***************************************************************************)
(* get_savings_progress_color                                              *)
(***************************************************************************)
get_savings_progress_color(percentage) ==
  IF QLeq(Hundred, percentage) THEN Returns(Label("green"))
  ELSE IF QLeq(Q(75, 1), percentage) THEN Returns(Label("yellow"))
  ELSE IF QLeq(Q(50, 1), percentage) THEN Returns(Label("blue"))
  ELSE Returns(Label("red"))

(***************************************************************************)
(* calculate_emergency_fund_target                                         *)
(***************************************************************************)
calculate_emergency_fund_target(monthly_expenses, months) ==
  IF QLeq(monthly_expenses, Zero) \/ QLeq(months, Zero) THEN Returns(Zero)
  ELSE Returns(QMul(monthly_expenses, months))

(***************************************************************************)
(* get_financial_health_score                                              *)
(***************************************************************************)
Max(a, b) == IF a > b THEN a ELSE b
Min(a, b) == IF a < b THEN a ELSE b

\* points deducted for high expenses
\* as ExpenseDeduction, with three independent tests ("if" for "elif"), so
\* that the deductions add up
ExpenseDeductionCumulative(expense_ratio) ==
  (IF QLess(Q(80, 1), expense_ratio) THEN 30 ELSE 0)
    + (IF QLess(Q(60, 1), expense_ratio) THEN 20 ELSE 0)
    + (IF QLess(Q(50, 1), expense_ratio) THEN 10 ELSE 0)

ExpenseDeduction(expense_ratio) ==
  IF QLess(Q(80, 1), expense_ratio) THEN 30
  ELSE IF QLess(Q(60, 1), expense_ratio) THEN 20
  ELSE IF QLess(Q(50, 1), expense_ratio) THEN 10
  ELSE 0

\* points deducted for high debt
DebtDeduction(debt_ratio) ==
  IF QLess(Q(40, 1), debt_ratio) THEN 25
  ELSE IF QLess(Q(20, 1), debt_ratio) THEN 15
  ELSE IF QLess(Q(10, 1), debt_ratio) THEN 5
  ELSE 0

\* as SavingsBonus, the bonus given only above the thresholds
SavingsBonusStrict(savings_rate) ==
  IF QLess(Q(20, 1), savings_rate) THEN 10
  ELSE IF QLess(Q(10, 1), savings_rate) THEN 5
  ELSE 0

\* points added for a good savings rate
SavingsBonus(savings_rate) ==
  IF QLeq(Q(20, 1), savings_rate) THEN 10
  ELSE IF QLeq(Q(10, 1), savings_rate) THEN 5
  ELSE 0

ScoreDescription(score) ==
  IF score >= 80 THEN "Excellent"
  ELSE IF score >= 60 THEN "Good"
  ELSE IF score >= 40 THEN "Fair"
  ELSE IF score >= 20 THEN "Poor"
  ELSE "Critical"

get_financial_health_score(income, expenses, savings, debt) ==
  IF QLeq(income, Zero) THEN Returns(Pair(0, "No income data"))
  ELSE LET savings_rate == QMul(QDiv(savings, income), Hundred)
           expense_ratio == QMul(QDiv(expenses, income), Hundred)
           debt_ratio == QMul(QDiv(debt, income), Hundred)
           score == Max(0, Min(100, 100 - ExpenseDeduction(expense_ratio)
                                        - DebtDeduction(debt_ratio)
                                        + SavingsBonus(savings_rate)))
       IN Returns(Pair(score, ScoreDescription(score)))

(***************************************************************************)
(* get_transaction_category_emoji.  An icon is named by its code point.    *)
(***************************************************************************)
emoji_map ==
  << [key |-> <<"f","o","o","d">>, emoji |-> "U+1F354"],
     [key |-> <<"g","r","o","c","e","r","i","e","s">>, emoji |-> "U+1F6D2"],
     [key |-> <<"t","r","a","n","s","p","o","r","t">>, emoji |-> "U+1F697"],
     [key |-> <<"g","a","s">>, emoji |-> "U+26FD"],
     [key |-> <<"r","e","n","t">>, emoji |-> "U+1F3E0"],
     [key |-> <<"u","t","i","l","i","t","i","e","s">>, emoji |-> "U+1F4A1"],
     [key |-> <<"e","n","t","e","r","t","a","i","n","m","e","n","t">>, emoji |-> "U+1F3AC"],
     [key |-> <<"s","h","o","p","p","i","n","g">>, emoji |-> "U+1F6CD"],
     [key |-> <<"h","e","a","l","t","h">>, emoji |-> "U+1F3E5"],
     [key |-> <<"e","d","u","c","a","t","i","o","n">>, emoji |-> "U+1F4DA"],
     [key |-> <<"s","a","l","a","r","y">>, emoji |-> "U+1F4B0"],
     [key |-> <<"b","o","n","u","s">>, emoji |-> "U+1F389"],
     [key |-> <<"i","n","v","e","s","t","m","e","n","t">>, emoji |-> "U+1F4C8"],
     [key |-> <<"s","a","v","i","n","g","s">>, emoji |-> "U+1F3E6"],
     [key |-> <<"i","n","s","u","r","a","n","c","e">>, emoji |-> "U+1F6E1"],
     [key |-> <<"t","r","a","v","e","l">>, emoji |-> "U+2708"],
     [key |-> <<"g","y","m">>, emoji |-> "U+1F4AA"],
     [key |-> <<"s","u","b","s","c","r","i","p","t","i","o","n">>, emoji |-> "U+1F4FA"],
     [key |-> <<"c","o","f","f","e","e">>, emoji |-> "U+2615"],
     [key |-> <<"r","e","s","t","a","u","r","a","n","t">>, emoji |-> "U+1F37D"] >>

DefaultEmoji == "U+1F4CB"

\* key in s
Contains(s, key) ==
  \E i \in 1..(Len(s) - Len(key) + 1) : SubSeq(s, i, i + Len(key) - 1) = key

\* as EmojiFrom, a later matching entry overriding an earlier one
RECURSIVE EmojiFromLast(_, _)
EmojiFromLast(category_lower, k) ==
  IF k > Len(emoji_map) THEN DefaultEmoji
  ELSE LET later == EmojiFromLast(category_lower, k + 1) IN
       IF later # DefaultEmoji THEN later
       ELSE IF Contains(category_lower, emoji_map[k].key) THEN emoji_map[k].emoji
       ELSE DefaultEmoji

\* the loop over emoji_map.items(), from entry k on
RECURSIVE EmojiFrom(_, _)
EmojiFrom(category_lower, k) ==
  IF k > Len(emoji_map) THEN DefaultEmoji
  ELSE IF Contains(category_lower, emoji_map[k].key) THEN emoji_map[k].emoji
  ELSE EmojiFrom(category_lower, k + 1)

get_transaction_category_emoji(category) ==
  Returns(Label(EmojiFrom(StrLower(category), 1)))

(***************************************************************************)
(* The calculators' specification: one call of one calculator.             *)
(***************************************************************************)
Ints(S) == {Q(i, 1) : i \in S}

CompoundInputs ==
  (Ints({0 - 1, 0, 1, 100}) \X (Ints((0 - 1)..2) \cup {Q(1, 2)}) \X Ints((0 - 1)..2)
     \X Ints((0 - MaxFrequency)..MaxFrequency))
    \cup { <<Q(1000, 1), Q(1, 20), One, Zero>>, <<Q(1000, 1), Q(1, 20), One, One>> }

LoanInputs ==
  (Ints({0 - 1, 0, 100, 1200}) \X Ints({0 - 1, 0, 1, 2, 6, 12})
     \X {Q(m, 12) : m \in (0 - 1)..MaxMonths})
    \cup (Ints({0 - 1, 0, 100, 1200}) \X Ints({0 - 1, 0, 6, 12}) \X Ints({1}))
    \cup { <<Q(1000, 1), Zero, Q(3, 1)>> }

BudgetInputs ==
  (Ints((0 - 1)..MaxMoney) \X Ints({0 - 1, 0, 4, 8, 10}))
    \cup (Ints({0, 50, 60, 75, 100, 150}) \X Ints({100}))

PercentageInputs ==
  { <<q>> : q \in Ints({0 - 1, 0, 49, 50, 51, 74, 75, 76, 99, 100, 101})
                    \cup {Q(2 * k + 1, 2) : k \in 48..50} }

EmergencyInputs == Ints((0 - 1)..MaxMoney) \X Ints((0 - 1)..6)

HealthInputs ==
  (Ints({0 - 1, 0, 5, 10}) \X Ints((0 - 1)..MaxMoney) \X Ints((0 - 1)..3)
     \X Ints((0 - 1)..5))
    \cup { <<Q(5000, 1), Q(2000, 1), Q(1000, 1), Zero>> }

EmojiTokens ==
  { <<"f","o","o","d">>,
    <<"r","e","s","t","a","u","r","a","n","t">>,
    <<"g","a","s">>,
    <<"R","e","n","t">>,
    <<"x">>,
    <<" ">>,
    <<"G","R","O","C","E","R","I","E","S">>,
    <<"v","e","g","a","s">>,
    <<"t","r","a","n","s","p","o","r","t">>,
    <<"c","o","f","f","e","e">> }

EmojiInputs == TokenStrings(EmojiTokens)

Calculators ==
  { "calculate_compound_interest", "calculate_monthly_payment", "get_budget_status",
    "get_savings_progress_color", "calculate_emergency_fund_target",
    "get_financial_health_score", "get_transaction_category_emoji" }

\* the arguments a calculator is called with
CalcInputs(f) ==
  CASE f = "calculate_compound_interest" -> CompoundInputs
    [] f = "calculate_monthly_payment" -> LoanInputs
    [] f = "get_budget_status" -> BudgetInputs
    [] f = "get_savings_progress_color" -> PercentageInputs
    [] f = "calculate_emergency_fund_target" -> EmergencyInputs
    [] f = "get_financial_health_score" -> HealthInputs
    [] f = "get_transaction_category_emoji" -> EmojiInputs

InitCalc ==
  /\ pc = "call"
  /\ ret = Pending
  /\ fn \in Calculators
  /\ arg \in CalcInputs(fn)
  /\ goal = NoValue
  /\ calls = <<>>

CallCompoundInterest ==
  /\ pc = "call" /\ fn = "calculate_compound_interest"
  /\ ret' = calculate_compound_interest(arg[1], arg[2], arg[3], arg[4])
  /\ pc' = "done"
  /\ UNCHANGED <<fn, arg, goal, calls>>

CallMonthlyPayment ==
  /\ pc = "call" /\ fn = "calculate_monthly_payment"
  /\ ret' = calculate_monthly_payment(arg[1], arg[2], arg[3])
  /\ pc' = "done"
  /\ UNCHANGED <<fn, arg, goal, calls>>

CallBudgetStatus ==
  /\ pc = "call" /\ fn = "get_budget_status"
  /\ ret' = get_budget_status(arg[1], arg[2])
  /\ pc' = "done"
  /\ UNCHANGED <<fn, arg, goal, calls>>

CallSavingsProgressColor ==
  /\ pc = "call" /\ fn = "get_savings_progress_color"
  /\ ret' = get_savings_progress_color(arg[1])
  /\ pc' = "done"
  /\ UNCHANGED <<fn, arg, goal, calls>>

CallEmergencyFundTarget ==
  /\ pc = "call" /\ fn = "calculate_emergency_fund_target"
  /\ ret' = calculate_emergency_fund_target(arg[1], arg[2])
  /\ pc' = "done"
  /\ UNCHANGED <<fn, arg, goal, calls>>

CallFinancialHealthScore ==
  /\ pc = "call" /\ fn = "get_financial_health_score"
  /\ ret' = get_financial_health_score(arg[1], arg[2], arg[3], arg[4])
  /\ pc' = "done"
  /\ UNCHANGED <<fn, arg, goal, calls>>

CallCategoryEmoji ==
  /\ pc = "call" /\ fn = "get_transaction_category_emoji"
  /\ ret' = get_transaction_category_emoji(arg)
  /\ pc' = "done"
  /\ UNCHANGED <<fn, arg, goal, calls>>

NextCalc ==
  \/ CallCompoundInterest
  \/ CallMonthlyPayment
  \/ CallBudgetStatus
  \/ CallSavingsProgressColor
  \/ CallEmergencyFundTarget
  \/ CallFinancialHealthScore
  \/ CallCategoryEmoji

SpecCalc == InitCalc /\ [][NextCalc]_vars

(***************************************************************************)
(* truncate_text.  The text is a string or None (NoValue).                 *)
(***************************************************************************)
DefaultMaxLength == 50

\* s[:k]: the first k characters for k >= 0, all but the last -k for k < 0
SliceTo(s, k) ==
  IF k >= 0 THEN SubSeq(s, 1, Min(k, Len(s)))
  ELSE SubSeq(s, 1, Max(Len(s) + k, 0))

Ellipsis == <<".", ".", ".">>

truncate_text(text, max_length) ==
  IF text = NoValue \/ text.chars = <<>> THEN Returns(StrVal(<<>>))
  ELSE IF Len(text.chars) <= max_length THEN Returns(text)
  ELSE Returns(StrVal(SliceTo(text.chars, max_length - 3) \o Ellipsis))

(***************************************************************************)
(* The specification of truncate_text: one call.                           *)
(***************************************************************************)
TextTokens ==
  { <<"a">>,
    <<"b","c">>,
    <<"d","e"," ","f">>,
    <<".">> }

TextInputs ==
  { StrVal(s) : s \in TokenStrings(TextTokens)
                        \cup { Rep(<<"a">>, n) : n \in {DefaultMaxLength, DefaultMaxLength + 1} } }
    \cup { NoValue }

MaxLengthInputs == ((0 - 1)..MaxLength) \cup {DefaultMaxLength}

InitText ==
  /\ pc = "call"
  /\ ret = Pending
  /\ fn = "truncate_text"
  /\ arg \in TextInputs \X MaxLengthInputs
  /\ goal = NoValue
  /\ calls = <<>>

CallTruncateText ==
  /\ pc = "call" /\ fn = "truncate_text"
  /\ ret' = truncate_text(arg[1], arg[2])
  /\ pc' = "done"
  /\ UNCHANGED <<fn, arg, goal, calls>>

NextText == CallTruncateText

SpecText == InitText /\ [][NextText]_vars

(***************************************************************************)
(* SavingsGoal.  The class is not among the sources; its methods are       *)
(* modelled from what src/tests/test_models.py and the description of the  *)
(* goal-progress arithmetic say of them, for contributions of positive     *)
(* amounts.  Amounts are whole units of money.                             *)
(***************************************************************************)
\* SavingsGoal(name, target_amount, current_amount, user_id): the amounts
SavingsGoal(target_amount, current_amount) ==
  [target_amount |-> target_amount,
   current_amount |-> current_amount,
   is_achieved |-> FALSE]

get_progress_percentage(self) ==
  Q(100 * self.current_amount, self.target_amount)

get_remaining_amount(self) == self.target_amount - self.current_amount

\* as add_contribution, the goal achieved only once the target is exceeded
add_contribution_exceeding(self, amount) ==
  LET current == self.current_amount + amount IN
  [self |-> [self EXCEPT !.current_amount = current,
                         !.is_achieved = self.is_achieved
                                           \/ current > self.target_amount],
   result |-> TRUE]

\* add_contribution(amount), amount > 0: the goal after the call and the
\* value returned
add_contribution(self, amount) ==
  LET current == self.current_amount + amount IN
  [self |-> [self EXCEPT !.current_amount = current,
                         !.is_achieved = self.is_achieved
                                           \/ current >= self.target_amount],
   result |-> TRUE]

(***************************************************************************)
(* The specification of a SavingsGoal: the goal as constructed, then calls *)
(* of its methods, at most MaxContributions of them contributions.         *)
(***************************************************************************)
\* (target_amount, current_amount) of the goals constructed
GoalInputs == { <<2000, 500>>, <<10000, 2500>>, <<2000, 0>> }

ContributionInputs == {300, 1200, 7500}

Constructed(target_amount, current_amount) ==
  [op |-> "SavingsGoal", target_amount |-> target_amount,
   current_amount |-> current_amount]

Contributed(amount) == [op |-> "add_contribution", amount |-> amount]

InitGoal ==
  /\ pc = "done"
  /\ fn = "SavingsGoal"
  /\ arg \in GoalInputs
  /\ ret = Returns(NoValue)
  /\ goal = SavingsGoal(arg[1], arg[2])
  /\ calls = <<Constructed(arg[1], arg[2])>>

CallAddContribution ==
  /\ pc = "done"
  /\ Len(calls) <= MaxContributions
  /\ \E amount \in ContributionInputs :
       LET r == add_contribution(goal, amount) IN
       /\ fn' = "add_contribution"
       /\ arg' = <<amount>>
       /\ goal' = r.self
       /\ ret' = Returns(r.result)
       /\ calls' = Append(calls, Contributed(amount))
  /\ UNCHANGED pc

CallGetProgressPercentage ==
  /\ pc = "done"
  /\ fn' = "get_progress_percentage"
  /\ arg' = <<>>
  /\ ret' = Returns(get_progress_percentage(goal))
  /\ UNCHANGED <<pc, goal, calls>>

CallGetRemainingAmount ==
  /\ pc = "done"
  /\ fn' = "get_remaining_amount"
  /\ arg' = <<>>
  /\ ret' = Returns(get_remaining_amount(goal))
  /\ UNCHANGED <<pc, goal, calls>>

NextGoal ==
  \/ CallAddContribution
  \/ CallGetProgressPercentage
  \/ CallGetRemainingAmount

SpecGoal == InitGoal /\ [][NextGoal]_vars

(***************************************************************************)
(* Properties.                                                             *)
(***************************************************************************)
Done(f) == pc = "done" /\ fn = f

\* C1: every calculator (compound interest, monthly payment, budget
\* status, savings progress color, emergency fund target, financial health
\* score) returns a value and never raises, whatever the sign or zero-ness
\* of its arguments.
C1_CalculatorsNeverRaise ==
  (pc = "done" /\ fn \in Calculators \ {"get_transaction_category_emoji"})
    => ret.exc = "none"

\* the kind of value a validator returns for a valid input
ValueKind(f) ==
  CASE f = "validate_amount" -> "float"
    [] f = "validate_date" -> "date"
    [] OTHER -> "str"

\* C2: for every input string each validator returns, without raising, a
\* pair (ok, payload); the payload is an error message when ok is false
\* and the normalized value when ok is true.
C2_ValidatorsReturnPair ==
  (pc = "done" /\ fn \in Validators) =>
    /\ ret.exc = "none"
    /\ ret.ok \in BOOLEAN
    /\ ~ret.ok => ret.payload.kind = "msg" /\ ret.payload.text # ""
    /\ ret.ok => ret.payload.kind = ValueKind(fn)

\* C2 witness: a validator has turned the ValueError of float() into a
\* (false, message) pair.
C2_Witness ==
  /\ Done("validate_amount")
  /\ ~ParseFloat(RemoveChars(Strip(arg), CurrencyChars)).ok
  /\ ret = Return(FALSE, Msg("Invalid amount format. Please enter a valid number."))

\* C4: validate_amount accepts exactly the inputs that, trimmed and without
\* '$', the euro and pound signs and ',', parse as a number n with
\* 0 <= n <= 1,000,000,000, so every accepted value lies in [0, 1e9];
\* negative, too large and non-numeric inputs get their messages.
C4_AcceptedAmountInRange ==
  Done("validate_amount") =>
    LET f == ParseFloat(RemoveChars(Strip(arg), CurrencyChars))
        number == f.ok /\ f.val.cls = "finite"
    IN /\ ret.ok <=> (/\ number
                      /\ ~FloatNegative(f.val)
                      /\ ~FloatGreater(f.val, AmountLimitDigits))
       /\ ret.ok => ret.payload = f.val
       /\ (number /\ FloatNegative(f.val))
            => ret = Return(FALSE, Msg("Amount cannot be negative"))
       /\ (number /\ FloatGreater(f.val, AmountLimitDigits))
            => ret = Return(FALSE, Msg("Amount is too large"))
       /\ ~f.ok
            => ret = Return(FALSE,
                       Msg("Invalid amount format. Please enter a valid number."))

\* C5: validate_category normalization is idempotent: an accepted input c
\* yields the trimmed, title-cased form v of c, and validate_category(v)
\* returns (true, v) again; empty, over-long and '<', '>', quote-carrying
\* inputs are rejected.
C5_CategoryIdempotent ==
  Done("validate_category") =>
    LET c == Strip(arg) IN
    /\ ret.ok =>
         /\ ret.payload = StrVal(StrTitle(c))
         /\ validate_category(ret.payload.chars) = ret
    /\ (c = <<>> \/ Len(c) > CategoryMaxLen \/ SearchClass(c, CategoryBadChars))
         => ~ret.ok

\* C3: validate_date decides on the first format, in the order YYYY-MM-DD,
\* YYYY/MM/DD, DD-MM-YYYY, DD/MM/YYYY, that parses the input: (true, d) when
\* 1900-01-01 <= d <= 2100-12-31, too far in the past / future outside that
\* range, "Date cannot be empty" for the empty input and "Invalid date
\* format. Use YYYY-MM-DD" when no format parses; "01-02-2023" is
\* 1 February 2023 and "2023-13-01" has no valid format.
C3_DateDecidedByFirstFormat ==
  Done("validate_date") =>
    LET parsing == {k \in 1..Len(DateFormats) : strptime(arg, DateFormats[k]).ok}
        first == CHOOSE k \in parsing : \A j \in parsing : k <= j
        d == strptime(arg, DateFormats[first]).date
        day == 10000 * d.y + 100 * d.m + d.d
    IN /\ arg = <<>> => ret = Return(FALSE, Msg("Date cannot be empty"))
       /\ (arg # <<>> /\ parsing = {})
            => ret = Return(FALSE, Msg("Invalid date format. Use YYYY-MM-DD"))
       /\ (arg # <<>> /\ parsing # {}) =>
            /\ day < 19000101 => ret = Return(FALSE, Msg("Date is too far in the past"))
            /\ day > 21001231 => ret = Return(FALSE, Msg("Date is too far in the future"))
            /\ (day >= 19000101 /\ day <= 21001231) => ret = Return(TRUE, d)
       /\ arg = <<"0","1","-","0","2","-","2","0","2","3">>
            => ret = Return(TRUE, DateVal(2023, 2, 1))
       /\ arg = <<"2","0","2","3","-","1","3","-","0","1">>
            => ret = Return(FALSE, Msg("Invalid date format. Use YYYY-MM-DD"))

\* C3 witness: the last day of the accepted range, given day first, has
\* been accepted.
C3_Witness ==
  /\ Done("validate_date")
  /\ arg = <<"3","1","/","1","2","/","2","1","0","0">>
  /\ ret = Return(TRUE, DateVal(2100, 12, 31))

\* local@domain.tld: one '@' after a non-empty local part, a non-empty
\* domain up to the last '.', and a top-level domain of two or more letters
EmailShape(e) ==
  \E at \in 1..Len(e), dot \in 1..Len(e) :
    /\ e[at] = "@" /\ e[dot] = "."
    /\ at > 1 /\ \A i \in 1..(at - 1) : e[i] \in EmailLocalChars
    /\ dot > at + 1 /\ \A i \in (at + 1)..(dot - 1) : e[i] \in EmailDomainChars
    /\ Len(e) - dot >= 2 /\ \A i \in (dot + 1)..Len(e) : e[i] \in Letter

\* C6: validate_email returns (true, lower-cased trimmed email) for every
\* string that, trimmed, has at most 255 characters and the shape
\* local@domain.tld with a top-level domain of two or more letters, and
\* (false, message) for every string that is empty after trimming, longer
\* than 255 characters or not of that shape.
C6_EmailShape ==
  Done("validate_email") =>
    LET e == Strip(arg) IN
    /\ ret.ok <=> (e # <<>> /\ Len(e) <= 255 /\ EmailShape(e))
    /\ ret.ok => ret.payload = StrVal(StrLower(e))
    /\ ~ret.ok => ret.payload.kind = "msg"

\* C6 witness: an email with surrounding blanks and an upper-case letter
\* has been accepted, trimmed and lower-cased.
C6_Witness ==
  /\ Done("validate_email")
  /\ arg = <<" ","a","@","B",".","c","o">>
  /\ ret = Return(TRUE, StrVal(<<"a","@","b",".","c","o">>))

\* C7: for income > 0 the score is 100 minus (30, 20, 10 for an expense
\* ratio above 80, 60, 50 percent) minus (25, 15, 5 for a debt ratio above
\* 40, 20, 10 percent) plus (10, 5 for a savings rate of at least 20, 10
\* percent), clamped to [0, 100], labelled Excellent / Good / Fair / Poor /
\* Critical from 80 / 60 / 40 / 20 / 0; (5000, 2000, 1000, 0) gives
\* (100, "Excellent"); income <= 0 gives (0, "No income data").
C7_HealthScoreFormula ==
  Done("get_financial_health_score") =>
    LET income == arg[1].n
        expenses == arg[2].n
        savings == arg[3].n
        debt == arg[4].n
        expense_points == IF 100 * expenses > 80 * income THEN 30
                          ELSE IF 100 * expenses > 60 * income THEN 20
                          ELSE IF 100 * expenses > 50 * income THEN 10 ELSE 0
        debt_points == IF 100 * debt > 40 * income THEN 25
                       ELSE IF 100 * debt > 20 * income THEN 15
                       ELSE IF 100 * debt > 10 * income THEN 5 ELSE 0
        savings_points == IF 100 * savings >= 20 * income THEN 10
                          ELSE IF 100 * savings >= 10 * income THEN 5 ELSE 0
        raw == 100 - expense_points - debt_points + savings_points
        score == IF raw > 100 THEN 100 ELSE IF raw < 0 THEN 0 ELSE raw
        label == CASE score >= 80 -> "Excellent"
                   [] score >= 60 /\ score < 80 -> "Good"
                   [] score >= 40 /\ score < 60 -> "Fair"
                   [] score >= 20 /\ score < 40 -> "Poor"
                   [] OTHER -> "Critical"
    IN /\ \A i \in 1..4 : arg[i].d = 1
       /\ income > 0 => ret = Returns(Pair(score, label))
       /\ income <= 0 => ret = Returns(Pair(0, "No income data"))
       /\ arg = <<Q(5000, 1), Q(2000, 1), Q(1000, 1), Zero>>
            => ret = Returns(Pair(100, "Excellent"))

\* C7 witness: a household at exactly 20 percent savings and above 50
\* percent expenses has been scored 100 - 10 + 10.
C7_Witness ==
  /\ Done("get_financial_health_score")
  /\ arg = <<Q(10, 1), Q(6, 1), Q(2, 1), Zero>>
  /\ ret = Returns(Pair(100, "Excellent"))

BudgetBand(spent, limit) ==
  IF limit <= 0 THEN Pair("No limit", "gray")
  ELSE IF 100 * spent <= 50 * limit THEN Pair("Good", "green")
  ELSE IF 100 * spent <= 75 * limit THEN Pair("Warning", "yellow")
  ELSE IF 100 * spent <= 100 * limit THEN Pair("High", "orange")
  ELSE Pair("Over", "red")

Severity(status) ==
  CASE status = "Good" -> 1
    [] status = "Warning" -> 2
    [] status = "High" -> 3
    [] status = "Over" -> 4
    [] OTHER -> 0

\* C8: get_budget_status returns ("No limit", "gray") for limit <= 0 and
\* otherwise, with p = 100 * spent / limit, Good/green for p <= 50,
\* Warning/yellow for 50 < p <= 75, High/orange for 75 < p <= 100 and
\* Over/red for p > 100; for a fixed positive limit the band never becomes
\* less severe as spent grows.
C8_BudgetBands ==
  Done("get_budget_status") =>
    /\ arg[1].d = 1 /\ arg[2].d = 1
    /\ ret = Returns(BudgetBand(arg[1].n, arg[2].n))
    /\ arg[2].n > 0 =>
         \A other \in BudgetInputs :
           (other[2] = arg[2] /\ other[1].n >= arg[1].n)
             => Severity(get_budget_status(other[1], other[2]).payload.a)
                  >= Severity(ret.payload.a)

\* C8 witness: spending exactly half of the limit has been classified Good.
C8_Witness ==
  /\ Done("get_budget_status")
  /\ arg = <<Q(50, 1), Q(100, 1)>>
  /\ ret = Returns(Pair("Good", "green"))

\* C9: get_transaction_category_emoji returns the icon of the earliest
\* keyword of the table that occurs in the lower-cased category, wherever
\* the keywords occur and however many match (a category with "restaurant"
\* and "food" gets the food icon), and the default icon when none occurs.
C9_EarliestKeywordWins ==
  Done("get_transaction_category_emoji") =>
    LET low == StrLower(arg)
        hits == {k \in 1..Len(emoji_map) : Contains(low, emoji_map[k].key)}
        first == CHOOSE k \in hits : \A j \in hits : k <= j
    IN /\ hits = {} => ret = Returns(Label(DefaultEmoji))
       /\ hits # {} => ret = Returns(Label(emoji_map[first].emoji))
       /\ (/\ Contains(low, <<"r","e","s","t","a","u","r","a","n","t">>)
           /\ Contains(low, <<"f","o","o","d">>))
            => ret = Returns(Label("U+1F354"))

\* C9 witness: a category naming the restaurant before the food has got
\* the food icon.
C9_Witness ==
  /\ Done("get_transaction_category_emoji")
  /\ arg = <<"r","e","s","t","a","u","r","a","n","t"," ","f","o","o","d">>
  /\ ret = Returns(Label("U+1F354"))

\* C10: calculate_monthly_payment returns 0 when principal <= 0,
\* years <= 0 or annual_rate < 0; principal / (12 * years) when the rate is
\* 0, (1200, 0, 1) giving 100; otherwise P*r*(1+r)^n / ((1+r)^n - 1) with
\* r = annual_rate / 12 and n = 12 * years, rounded to 2 decimals (a
\* nearest multiple of 1/100).
C10_MonthlyPayment ==
  Done("calculate_monthly_payment") =>
    LET P == arg[1]
        rate == arg[2]
        years == arg[3]
        r == QDiv(rate, Q(12, 1))
        n == QMul(Q(12, 1), years)
        g == QPow(QAdd(One, r), n.n)
        exact == QDiv(QMul(P, QMul(r, g)), QSub(g, One))
        part == 100 * (exact.n % exact.d)
        below == 100 * (exact.n \div exact.d) + (part \div exact.d)
        twice == 2 * (part % exact.d)
    IN /\ (QLeq(P, Zero) \/ QLeq(years, Zero) \/ QLess(rate, Zero))
            => ret = Returns(Zero)
       /\ (QLess(Zero, P) /\ QLess(Zero, years) /\ rate = Zero)
            => ret.exc = "none" /\ QMul(ret.payload, n) = P
       /\ (QLess(Zero, P) /\ QLess(Zero, years) /\ QLess(Zero, rate))
            => /\ ret.exc = "none" /\ n.d = 1
               /\ \/ ret.payload = Q(below, 100) /\ twice <= exact.d
                  \/ ret.payload = Q(below + 1, 100) /\ twice >= exact.d
       /\ arg = <<Q(1200, 1), Zero, One>> => ret = Returns(Q(100, 1))

\* C10 witness: a one-year loan of 1200 at a monthly rate of one half has
\* been given its amortization payment, 604.66.
C10_Witness ==
  /\ Done("calculate_monthly_payment")
  /\ arg = <<Q(1200, 1), Q(6, 1), One>>
  /\ ret = Returns(Q(60466, 100))

\* exactly four digits, a hyphen and two digits
MonthShape(s) ==
  /\ Len(s) = 7
  /\ \A i \in {1, 2, 3, 4, 6, 7} : s[i] \in Digit
  /\ s[5] = "-"

\* C11: whenever validate_month returns (true, s), s is exactly the input,
\* s consists of four digits, a hyphen and two digits and nothing else, its
\* year is in [1900, 2100] and its month in [1, 12]; every input that is
\* empty, not of that form or outside those ranges is rejected with
\* (false, message).
C11_MonthExact ==
  Done("validate_month") =>
    LET year == DigitsToInt(SubSeq(arg, 1, 4))
        month == DigitsToInt(SubSeq(arg, 6, 7))
        inRange == year >= 1900 /\ year <= 2100 /\ month >= 1 /\ month <= 12
    IN /\ ret.ok =>
            /\ ret.payload = StrVal(arg)
            /\ MonthShape(ret.payload.chars)
            /\ inRange
       /\ (arg = <<>> \/ ~MonthShape(arg) \/ ~inRange)
            => ~ret.ok /\ ret.payload.kind = "msg"

\* the characters of a name: letters, spaces, hyphens, apostrophes, periods
NameChars == Letter \cup {" ", "-", "'", "."}

\* C12: whenever validate_name returns (true, v), the trimmed input has
\* between 2 and 100 characters, consists only of letters, spaces, hyphens,
\* apostrophes and periods, contains at least one letter, and v is its
\* title-cased form; every input that is empty after trimming, shorter than
\* 2 or longer than 100 characters, contains any other character or has no
\* letter is rejected.
C12_NameShape ==
  Done("validate_name") =>
    LET n == Strip(arg)
        onlyNameChars == \A i \in 1..Len(n) : n[i] \in NameChars
        hasLetter == \E i \in 1..Len(n) : n[i] \in Letter
    IN /\ ret.ok =>
            /\ Len(n) >= 2 /\ Len(n) <= 100
            /\ onlyNameChars
            /\ hasLetter
            /\ ret.payload = StrVal(StrTitle(n))
       /\ (n = <<>> \/ Len(n) < 2 \/ Len(n) > 100 \/ ~onlyNameChars \/ ~hasLetter)
            => ~ret.ok

\* C13: validate_phone_number treats the phone as optional: an absent or
\* blank phone is accepted; a non-blank phone is accepted, returning the
\* trimmed original string, exactly when removing whitespace, hyphens,
\* parentheses and plus signs leaves only digits, between 7 and 15 of them;
\* otherwise the result is (false, message).
C13_PhoneOptional ==
  Done("validate_phone_number") =>
    LET p == Strip(arg)
        digits == SelectSeq(p, LAMBDA c : c \notin Whitespace \cup {"-", "(", ")", "+"})
        onlyDigits == \A i \in 1..Len(digits) : digits[i] \in Digit
    IN /\ p = <<>> => ret.ok
       /\ p # <<>> =>
            /\ ret.ok <=> (onlyDigits /\ Len(digits) >= 7 /\ Len(digits) <= 15)
            /\ ret.ok => ret.payload = StrVal(p)
       /\ ~ret.ok => ret.payload.kind = "msg"

LowerHexDigit == Digit \cup {"a", "b", "c", "d", "e", "f"}

\* six hexadecimal digits
SixHex(s) == Len(s) = 6 /\ \A i \in 1..6 : s[i] \in HexDigit

C16_HealthScoreRange ==
  Done("get_financial_health_score") =>
    /\ ret.exc = "none"
    /\ QLess(Zero, arg[1]) =>
         /\ ret.payload.a >= 45 /\ ret.payload.a <= 100
         /\ ret.payload.b \in {"Excellent", "Good", "Fair"}
    /\ ret.payload.b \notin {"Poor", "Critical"}
    /\ ret.payload.a = 0 =>
         QLeq(arg[1], Zero) /\ ret.payload.b = "No income data"

\* C16 witness: a household spending all of its income, with a debt above 40
\* percent of it and no savings, has got the lowest score, 100 - 30 - 25.
C16_Witness ==
  /\ Done("get_financial_health_score")
  /\ arg = <<Q(5, 1), Q(5, 1), Zero, Q(3, 1)>>
  /\ ret = Returns(Pair(45, "Fair"))

\* C17: for every text and every max_length >= 0, truncate_text returns a
\* string of length at most max_length: the text unchanged when
\* len(text) <= max_length, otherwise the first max_length - 3 characters
\* of the text followed by "..." (length exactly max_length); an empty or
\* absent text yields "".
C17_TruncateBounded ==
  (Done("truncate_text") /\ arg[2] >= 0) =>
    LET text == arg[1]
        max_length == arg[2]
        present == text # NoValue /\ text.chars # <<>>
        out == ret.payload.chars
    IN /\ ret.exc = "none" /\ ret.payload.kind = "str"
       /\ Len(out) <= max_length
       /\ ~present => out = <<>>
       /\ (present /\ Len(text.chars) <= max_length) => out = text.chars
       /\ (present /\ Len(text.chars) > max_length) =>
            /\ out = SubSeq(text.chars, 1, max_length - 3) \o <<".", ".", ".">>
            /\ Len(out) = max_length

\* a1 + ... + ak of the contributions made so far
RECURSIVE Contributions(_)
Contributions(cs) ==
  IF cs = <<>> THEN 0
  ELSE (IF Head(cs).op = "add_contribution" THEN Head(cs).amount ELSE 0)
       + Contributions(Tail(cs))

====
